---- MODULE Spec2Model ----
(***************************************************************************)
(* Black-Scholes Greeks engine and its clients, as implemented five times  *)
(* in the repository: polygon_mcp_server.py ("server"),                    *)
(* polygon_mcp_server_sse.py ("sse"), polygon_mcp_server_clean.py          *)
(* ("clean"), polygon_mcp_server_stdio.py ("stdio") and                    *)
(* market_parser_demo.py ("demo").                                         *)
(*                                                                         *)
(* Numbers.  Python floats are modelled as fixed-point integers with six   *)
(* decimals: the integer x stands for the real x / ONE.  Every arithmetic  *)
(* operation of the source is one fixed-point operation here, applied in   *)
(* the order the source applies it, so that two copies of a formula agree  *)
(* in the model only if they are the same expression up to the identities  *)
(* of real arithmetic.  Products and quotients are truncated towards zero  *)
(* and are computed in pieces so that no intermediate value leaves 32 bits.*)
(* An optional value (Python None or a value) is a sequence of length 0    *)
(* or 1.                                                                   *)
(***************************************************************************)
EXTENDS Integers, Sequences, FiniteSets, TLC

VARIABLES
    impl,            \* which of the five source files is the running program
    now,             \* datetime.now(), in ticks since midnight of day 0
    pc,              \* the caller's position: "idle" or "returned"
    engine_call,     \* <<args>> of the calculate_greeks call made by the last operation, or <<>>
    engine_result,   \* <<result>> of that call, or <<>>
    request,         \* <<args>> of the last client calculate_option_greeks request, or <<>>
    response,        \* <<dict>> returned for that request, or <<>>
    expiry_policies, \* what this program did so far with requests whose time_to_expiry <= 0
    strategy,        \* the analyze_options_strategy request in progress, if any
    mcp              \* the MCP server process: polygon_client, lifespan, last tool call

vars == <<impl, now, pc, engine_call, engine_result, request, response, expiry_policies, strategy,
         mcp>>

-----------------------------------------------------------------------------
(* Fixed-point arithmetic standing for Python's float arithmetic.          *)

ONE == 1000 * 1000
HALF == ONE \div 2

Abs(x) == IF x < 0 THEN -x ELSE x
Sgn(x) == IF x < 0 THEN -1 ELSE 1

\* |a| * |b| / ONE, truncated, without forming the 64-bit product.
MulAbs(a, b) ==
    LET ah == a \div 1000
        al == a % 1000
        bh == b \div 1000
        bl == b % 1000
    IN ah * bh + ((ah * bl + al * bh) + (al * bl) \div 1000) \div 1000

\* Python's  a * b  on floats.
FMul(a, b) == Sgn(a) * Sgn(b) * MulAbs(Abs(a), Abs(b))

RECURSIVE DivDigits(_, _, _)
DivDigits(r, b, k) ==
    IF k = 0 THEN 0
    ELSE LET r10 == r * 10
         IN (r10 \div b) * (10 ^ (k - 1)) + DivDigits(r10 % b, b, k - 1)

\* |a| * ONE / |b|, truncated, by long division (six decimal digits).
DivAbs(a, b) == (a \div b) * ONE + DivDigits(a % b, b, 6)

\* Python's  a / b  on floats, b # 0.
FDiv(a, b) == Sgn(a) * Sgn(b) * DivAbs(Abs(a), Abs(b))

\* Python's  x / n  for a float x and the integer literal n (365, 100, ...).
IDiv(x, n) == Sgn(x) * (Abs(x) \div n)

RECURSIVE SqrtIter(_, _, _)
SqrtIter(x, y, k) ==
    LET y2 == (y + FDiv(x, y)) \div 2
    IN IF k = 0 \/ Abs(y2 - y) <= 1 THEN y2 ELSE SqrtIter(x, y2, k - 1)

\* np.sqrt / math.sqrt for x >= 0 (Newton's iteration).
Sqrt(x) == IF x = 0 THEN 0 ELSE SqrtIter(x, ONE, 40)

RECURSIVE LnSeries(_, _, _, _)
LnSeries(zpow, z2, n, k) ==
    IF k = 0 THEN 0
    ELSE IDiv(zpow, n) + LnSeries(FMul(zpow, z2), z2, n + 2, k - 1)

\* np.log / math.log for x > 0:  ln x = 2 atanh((x - 1) / (x + 1)).
Ln(x) ==
    LET z == FDiv(x - ONE, x + ONE)
    IN 2 * LnSeries(z, FMul(z, z), 1, 8)

RECURSIVE ExpSeries(_, _, _, _)
ExpSeries(term, x, n, k) ==
    IF k = 0 THEN 0
    ELSE term + ExpSeries(IDiv(FMul(term, x), n), x, n + 1, k - 1)

\* np.exp / math.exp: Taylor series after halving the argument into [-1/2, 1/2].
RECURSIVE Exp(_)
Exp(x) ==
    IF Abs(x) > HALF
    THEN LET h == Exp(IDiv(x, 2)) IN FMul(h, h)
    ELSE ExpSeries(ONE, x, 1, 10)

\* scipy.stats.norm.pdf:  exp(-x^2 / 2) / sqrt(2 pi).
NormPdf(x) == FMul(398942, Exp(-IDiv(FMul(x, x), 2)))

\* The polynomial of Abramowitz-Stegun 26.2.17 in t = 1 / (1 + p x).
CdfPoly(t) ==
    FMul(t, 319382 + FMul(t, -356564 + FMul(t, 1781478 +
         FMul(t, -1821256 + FMul(t, 1330274)))))

\* scipy.stats.norm.cdf.
RECURSIVE NormCdf(_)
NormCdf(x) ==
    IF x < 0 THEN ONE - NormCdf(-x)
    ELSE LET t == FDiv(ONE, ONE + FMul(231642, x))
         IN ONE - FMul(NormPdf(x), CdfPoly(t))

\* Round4 with the slip of truncating instead of rounding.
Round4_truncating(x) == (x \div 100) * 100

\* Python's round(x, 4): the nearest multiple of 0.0001, ties to the even one.
Round4(x) ==
    LET q == x \div 100
        r == x % 100
    IN IF r > 50 \/ (r = 50 /\ q % 2 = 1) THEN (q + 1) * 100 ELSE q * 100

-----------------------------------------------------------------------------
(* str.lower() on the option-type strings that occur.                      *)

\* Lower as a comparison that respects case.
Lower_case_sensitive(s) == s

Lower(s) ==
    CASE s = "CALL" -> "call"
      [] s = "Call" -> "call"
      [] s = "PUT"  -> "put"
      [] OTHER      -> s

-----------------------------------------------------------------------------
(* The Greeks engine.  An argument record a has the six parameters of      *)
(* calculate_greeks.  A result has status "ok" and the returned fields,    *)
(* status "raised" when the call raises an exception, or status            *)
(* "nonfinite" when numpy evaluates the formula outside its domain and the *)
(* returned values contain nan or inf (numpy warns and goes on where the   *)
(* math module raises).                                                    *)

Greeks(delta, gamma, theta, vega, rho, iv) ==
    [status |-> "ok", delta |-> delta, gamma |-> gamma, theta |-> theta,
     vega |-> vega, rho |-> rho, implied_volatility |-> iv]

Raised == [status |-> "raised"]
NonFinite == [status |-> "nonfinite"]

\* d1 = (log(spot / strike) + (r + 0.5 * vol**2) * T) / (vol * sqrt(T))
D1(a) ==
    FDiv(Ln(FDiv(a.spot_price, a.strike_price))
           + FMul(a.risk_free_rate + FMul(HALF, FMul(a.volatility, a.volatility)),
                  a.time_to_expiry),
         FMul(a.volatility, Sqrt(a.time_to_expiry)))

\* d2 = d1 - vol * sqrt(T)
D2(a, d1) == d1 - FMul(a.volatility, Sqrt(a.time_to_expiry))

\* What evaluating d1, d2 and the Greeks does with numpy (np.log, np.sqrt):
\* spot / strike is a division of two Python floats and raises on a zero
\* strike; np.log of a non-positive number, np.sqrt of a negative number and
\* a division by the numpy zero vol * sqrt(T) give -inf, nan or inf.
NumpyFormula(a) ==
    IF a.strike_price = 0 THEN "raised"
    ELSE IF \/ Sgn(a.spot_price) * Sgn(a.strike_price) < 0
            \/ a.spot_price = 0
            \/ a.time_to_expiry <= 0
            \/ a.volatility = 0
         THEN "nonfinite"
         ELSE "ok"

\* The same with the math module (math.log, math.sqrt), which raises
\* ValueError or ZeroDivisionError instead.
MathFormula(a) ==
    IF NumpyFormula(a) = "ok" THEN "ok" ELSE "raised"

\* The sub-expressions every copy of the formula shares: d1, d2, sqrt(T),
\* exp(-r * T) and norm.pdf(d1).
Terms(a) ==
    LET d1 == D1(a)
    IN [d1 |-> d1, d2 |-> D2(a, d1), sqrtT |-> Sqrt(a.time_to_expiry),
        disc |-> Exp(-FMul(a.risk_free_rate, a.time_to_expiry)),
        pdf |-> NormPdf(d1)]

IsCall(a) == Lower(a.option_type) = "call"

Rounded(f, iv) ==
    Greeks(Round4(f.delta), Round4(f.gamma), Round4(f.theta), Round4(f.vega),
           Round4(f.rho), iv)

(* polygon_mcp_server.py, OptionsGreeks.calculate_greeks *)

\* expired_server with the slip  spot_price >= strike_price.
expired_server_at_the_money(a) ==
    Greeks(IF Lower(a.option_type) = "call" /\ a.spot_price >= a.strike_price
           THEN ONE ELSE 0,
           0, 0, 0, 0, <<a.volatility>>)

\* The dict returned when time_to_expiry <= 0.
expired_server(a) ==
    Greeks(IF Lower(a.option_type) = "call" /\ a.spot_price > a.strike_price
           THEN ONE ELSE 0,
           0, 0, 0, 0, <<a.volatility>>)

\* delta_server with the sign of the put's delta lost.
delta_server_unsigned(a, m) ==
    IF IsCall(a) THEN NormCdf(m.d1) ELSE NormCdf(-m.d1)

delta_server(a, m) ==
    IF IsCall(a) THEN NormCdf(m.d1) ELSE -NormCdf(-m.d1)

rho_server(a, m) ==
    IF IsCall(a)
    THEN IDiv(FMul(FMul(FMul(a.strike_price, a.time_to_expiry), m.disc),
                   NormCdf(m.d2)), 100)
    ELSE IDiv(FMul(FMul(FMul(-a.strike_price, a.time_to_expiry), m.disc),
                   NormCdf(-m.d2)), 100)

gamma_server(a, m) ==
    FDiv(m.pdf, FMul(FMul(a.spot_price, a.volatility), m.sqrtT))

theta_server(a, m) ==
    IDiv(FDiv(-FMul(FMul(a.spot_price, m.pdf), a.volatility), 2 * m.sqrtT)
           - FMul(FMul(FMul(a.risk_free_rate, a.strike_price), m.disc),
                  IF IsCall(a) THEN NormCdf(m.d2) ELSE NormCdf(-m.d2)),
         365)

\* vega_server without the scaling to one percentage point.
vega_server_unscaled(a, m) ==
    FMul(FMul(a.spot_price, m.pdf), m.sqrtT)

vega_server(a, m) ==
    IDiv(FMul(FMul(a.spot_price, m.pdf), m.sqrtT), 100)

\* The five values before rounding.
formula_server(a) ==
    LET m == Terms(a)
    IN [delta |-> delta_server(a, m), gamma |-> gamma_server(a, m),
        theta |-> theta_server(a, m), vega |-> vega_server(a, m),
        rho |-> rho_server(a, m)]

calculate_greeks_server(a) ==
    IF a.time_to_expiry <= 0 THEN expired_server(a)
    ELSE IF NumpyFormula(a) = "raised" THEN Raised
    ELSE IF NumpyFormula(a) = "nonfinite" THEN NonFinite
    ELSE Rounded(formula_server(a), <<a.volatility>>)

\* polygon_mcp_server_sse.py, OptionsGreeks.calculate_greeks: the same text
\* as in polygon_mcp_server.py, line for line.
formula_sse(a) == formula_server(a)

calculate_greeks_sse(a) == calculate_greeks_server(a)

(* polygon_mcp_server_clean.py, OptionsGreeks.calculate_greeks *)

delta_clean(a, m) ==
    IF IsCall(a) THEN NormCdf(m.d1) ELSE NormCdf(m.d1) - ONE

theta_clean(a, m) ==
    IF IsCall(a)
    THEN IDiv(FDiv(FMul(FMul(-a.spot_price, m.pdf), a.volatility), 2 * m.sqrtT)
                - FMul(FMul(FMul(a.risk_free_rate, a.strike_price), m.disc),
                       NormCdf(m.d2)),
              365)
    ELSE IDiv(FDiv(FMul(FMul(-a.spot_price, m.pdf), a.volatility), 2 * m.sqrtT)
                + FMul(FMul(FMul(a.risk_free_rate, a.strike_price), m.disc),
                       NormCdf(-m.d2)),
              365)

gamma_clean(a, m) ==
    FDiv(m.pdf, FMul(FMul(a.spot_price, a.volatility), m.sqrtT))

vega_clean(a, m) ==
    IDiv(FMul(FMul(a.spot_price, m.pdf), m.sqrtT), 100)

rho_clean(a, m) ==
    IDiv(FMul(FMul(FMul(a.strike_price, a.time_to_expiry), m.disc),
              IF IsCall(a) THEN NormCdf(m.d2) ELSE NormCdf(-m.d2)),
         100)

formula_clean(a) ==
    LET m == Terms(a)
    IN [delta |-> delta_clean(a, m), gamma |-> gamma_clean(a, m),
        theta |-> theta_clean(a, m), vega |-> vega_clean(a, m),
        rho |-> rho_clean(a, m)]

\* The returned dict has no implied_volatility.
calculate_greeks_clean(a) ==
    IF NumpyFormula(a) = "raised" THEN Raised
    ELSE IF NumpyFormula(a) = "nonfinite" THEN NonFinite
    ELSE Rounded(formula_clean(a), <<>>)

\* polygon_mcp_server_stdio.py, OptionsGreeks.calculate_greeks: the same text
\* as in polygon_mcp_server_clean.py, line for line.
formula_stdio(a) == formula_clean(a)

calculate_greeks_stdio(a) == calculate_greeks_clean(a)

(* market_parser_demo.py, BlackScholesCalculator.calculate_greeks *)

delta_demo(a, m) ==
    IF IsCall(a) THEN NormCdf(m.d1) ELSE NormCdf(m.d1) - ONE

\* theta_demo per trading day (252) instead of per calendar day.
theta_demo_per_trading_day(a, m) ==
    IF IsCall(a)
    THEN IDiv(FDiv(-FMul(FMul(a.spot_price, m.pdf), a.volatility), 2 * m.sqrtT)
                - FMul(FMul(FMul(a.risk_free_rate, a.strike_price), m.disc),
                       NormCdf(m.d2)),
              252)
    ELSE IDiv(FDiv(-FMul(FMul(a.spot_price, m.pdf), a.volatility), 2 * m.sqrtT)
                + FMul(FMul(FMul(a.risk_free_rate, a.strike_price), m.disc),
                       ONE - NormCdf(m.d2)),
              252)

theta_demo(a, m) ==
    IF IsCall(a)
    THEN IDiv(FDiv(-FMul(FMul(a.spot_price, m.pdf), a.volatility), 2 * m.sqrtT)
                - FMul(FMul(FMul(a.risk_free_rate, a.strike_price), m.disc),
                       NormCdf(m.d2)),
              365)
    ELSE IDiv(FDiv(-FMul(FMul(a.spot_price, m.pdf), a.volatility), 2 * m.sqrtT)
                + FMul(FMul(FMul(a.risk_free_rate, a.strike_price), m.disc),
                       ONE - NormCdf(m.d2)),
              365)

rho_demo(a, m) ==
    IF IsCall(a)
    THEN IDiv(FMul(FMul(FMul(a.strike_price, a.time_to_expiry), m.disc),
                   NormCdf(m.d2)), 100)
    ELSE IDiv(FMul(FMul(FMul(-a.strike_price, a.time_to_expiry), m.disc),
                   ONE - NormCdf(m.d2)), 100)

\* gamma_demo with a put's gamma negated.
gamma_demo_signed(a, m) ==
    IF IsCall(a)
    THEN FDiv(m.pdf, FMul(FMul(a.spot_price, a.volatility), m.sqrtT))
    ELSE -FDiv(m.pdf, FMul(FMul(a.spot_price, a.volatility), m.sqrtT))

gamma_demo(a, m) ==
    FDiv(m.pdf, FMul(FMul(a.spot_price, a.volatility), m.sqrtT))

vega_demo(a, m) ==
    IDiv(FMul(FMul(a.spot_price, m.pdf), m.sqrtT), 100)

formula_demo(a) ==
    LET m == Terms(a)
    IN [delta |-> delta_demo(a, m), gamma |-> gamma_demo(a, m),
        theta |-> theta_demo(a, m), vega |-> vega_demo(a, m),
        rho |-> rho_demo(a, m)]

calculate_greeks_demo(a) ==
    IF MathFormula(a) = "raised" THEN Raised
    ELSE Rounded(formula_demo(a), <<a.volatility>>)

\* The copy of calculate_greeks that the program i runs, and its values
\* before rounding.
calculate_greeks(i, a) ==
    CASE i = "server" -> calculate_greeks_server(a)
      [] i = "sse"    -> calculate_greeks_sse(a)
      [] i = "clean"  -> calculate_greeks_clean(a)
      [] i = "stdio"  -> calculate_greeks_stdio(a)
      [] i = "demo"   -> calculate_greeks_demo(a)

formula(i, a) ==
    CASE i = "server" -> formula_server(a)
      [] i = "sse"    -> formula_sse(a)
      [] i = "clean"  -> formula_clean(a)
      [] i = "stdio"  -> formula_stdio(a)
      [] i = "demo"   -> formula_demo(a)

-----------------------------------------------------------------------------
(* The market-data provider.  One answer of the provider is a record p:    *)
(* p.raises (the request fails with an exception), p.prev_close (the list  *)
(* of previous-close aggregates: empty, or one closing price) and          *)
(* p.last_trade (no price, or the last trade's price).                     *)

\* get_stock_price_server with an error dict that has no "status" key.
get_stock_price_server_without_status(p) ==
    IF p.raises
    THEN [error |-> <<"provider error">>, status |-> "absent",
          price |-> <<>>, last_trade_price |-> <<>>]
    ELSE [error |-> <<>>, status |-> "success",
          price |-> p.prev_close, last_trade_price |-> p.last_trade]

\* polygon_mcp_server.py / polygon_mcp_server_sse.py, PolygonMCPClient.get_stock_price
get_stock_price_server(p) ==
    IF p.raises
    THEN [error |-> <<"provider error">>, status |-> "error",
          price |-> <<>>, last_trade_price |-> <<>>]
    ELSE [error |-> <<>>, status |-> "success",
          price |-> p.prev_close, last_trade_price |-> p.last_trade]

\* polygon_mcp_server_clean.py / polygon_mcp_server_stdio.py: prev_close[0]
\* is read unconditionally and raises IndexError on an empty list.
get_stock_price_clean(p) ==
    IF p.raises \/ p.prev_close = <<>>
    THEN [error |-> <<"Failed to get stock price">>, current_price |-> <<>>]
    ELSE [error |-> <<>>,
          current_price |-> IF p.last_trade # <<>> THEN p.last_trade ELSE p.prev_close]

\* market_parser_demo.py: only the previous-close aggregate is requested.
get_stock_price_demo(p) ==
    IF p.raises THEN [error |-> <<"Failed to get price">>, price |-> <<>>]
    ELSE IF p.prev_close = <<>> THEN [error |-> <<"No data found">>, price |-> <<>>]
    ELSE [error |-> <<>>, price |-> p.prev_close]

-----------------------------------------------------------------------------
(* The clients' calculate_option_greeks.  A request q has strike_price,    *)
(* expiration_date (a day number, or BadDate for a string that strptime    *)
(* rejects), option_type and volatility (optional).  The operators return  *)
(* the response dict together with the time_to_expiry computed and the     *)
(* engine call made, if any.                                               *)

TicksPerDay == 2
BadDate == 0 - 1

\* PyOr as  a if a is not None else b .
PyOr_none_only(a, b) == IF a # <<>> THEN a ELSE b

\* Python's  a or b  on optional numbers: None and 0 are false.
PyOr(a, b) == IF a # <<>> /\ a[1] # 0 THEN a ELSE b

\* (exp_date - datetime.now()).days / 365.0 : timedelta.days is the floor of
\* the difference in days, exp_date being 00:00 of the expiration date.
TimeToExpiry(expiration_date, t) ==
    LET days == (expiration_date * TicksPerDay - t) \div TicksPerDay
    IN IDiv(days * ONE, 365)

DefaultRate == 50000
DefaultVolatility == 250000

EngineArgs(spot, strike, tte, vol, type) ==
    [spot_price |-> spot, strike_price |-> strike, time_to_expiry |-> tte,
     risk_free_rate |-> DefaultRate, volatility |-> vol, option_type |-> type]

Outcome(resp, tte, call, result) ==
    [response |-> resp, time_to_expiry |-> tte, engine_call |-> call,
     engine_result |-> result]

ErrorDict(status, msg) ==
    [status |-> status, error |-> <<msg>>, greeks |-> <<>>, spot_price |-> <<>>]

SuccessDict(status, spot, greeks) ==
    [status |-> status, error |-> <<>>, greeks |-> <<greeks>>, spot_price |-> <<spot>>]

\* polygon_mcp_server.py / polygon_mcp_server_sse.py, PolygonMCPClient.calculate_option_greeks
calculate_option_greeks_server(q, p, t) ==
    LET stock_data == get_stock_price_server(p)
        spot_price == PyOr(stock_data.price, stock_data.last_trade_price)
        tte == TimeToExpiry(q.expiration_date, t)
        volatility == IF q.volatility = <<>> THEN DefaultVolatility ELSE q.volatility[1]
        a == EngineArgs(spot_price[1], q.strike_price, tte, volatility, Lower(q.option_type))
        greeks == calculate_greeks_server(a)
    IN IF stock_data.error # <<>>
       THEN Outcome(ErrorDict(stock_data.status, stock_data.error[1]), <<>>, <<>>, <<>>)
       ELSE IF spot_price = <<>> \/ spot_price[1] = 0
       THEN Outcome(ErrorDict("error", "Could not get current stock price"), <<>>, <<>>, <<>>)
       ELSE IF q.expiration_date = BadDate
       THEN Outcome(ErrorDict("error", "exception"), <<>>, <<>>, <<>>)
       ELSE IF tte < 0
       THEN Outcome(ErrorDict("error", "Option has already expired"), <<tte>>, <<>>, <<>>)
       ELSE IF greeks.status = "raised"
       THEN Outcome(ErrorDict("error", "exception"), <<tte>>, <<a>>, <<greeks>>)
       ELSE Outcome(SuccessDict("success", spot_price[1], greeks), <<tte>>, <<a>>, <<greeks>>)

\* calculate_option_greeks_clean with the expiry check  time_to_expiry < 0 .
calculate_option_greeks_clean_expired_below_zero(q, p, t) ==
    LET stock_data == get_stock_price_clean(p)
        spot_price == stock_data.current_price
        tte == TimeToExpiry(q.expiration_date, t)
        vol == PyOr(q.volatility, <<DefaultVolatility>>)[1]
        a == EngineArgs(spot_price[1], q.strike_price, tte, vol, q.option_type)
        greeks == calculate_greeks_clean(a)
    IN IF stock_data.error # <<>>
       THEN Outcome(ErrorDict("absent", stock_data.error[1]), <<>>, <<>>, <<>>)
       ELSE IF q.expiration_date = BadDate
       THEN Outcome(ErrorDict("absent", "Failed to calculate Greeks"), <<>>, <<>>, <<>>)
       ELSE IF tte < 0
       THEN Outcome(ErrorDict("absent", "Option has already expired"), <<tte>>, <<>>, <<>>)
       ELSE IF greeks.status = "raised"
       THEN Outcome(ErrorDict("absent", "Failed to calculate Greeks"), <<tte>>, <<a>>, <<greeks>>)
       ELSE Outcome(SuccessDict("absent", spot_price[1], greeks), <<tte>>, <<a>>, <<greeks>>)

\* polygon_mcp_server_clean.py / polygon_mcp_server_stdio.py: the dicts carry
\* no "status" key.
calculate_option_greeks_clean(q, p, t) ==
    LET stock_data == get_stock_price_clean(p)
        spot_price == stock_data.current_price
        tte == TimeToExpiry(q.expiration_date, t)
        vol == PyOr(q.volatility, <<DefaultVolatility>>)[1]
        a == EngineArgs(spot_price[1], q.strike_price, tte, vol, q.option_type)
        greeks == calculate_greeks_clean(a)
    IN IF stock_data.error # <<>>
       THEN Outcome(ErrorDict("absent", stock_data.error[1]), <<>>, <<>>, <<>>)
       ELSE IF q.expiration_date = BadDate
       THEN Outcome(ErrorDict("absent", "Failed to calculate Greeks"), <<>>, <<>>, <<>>)
       ELSE IF tte <= 0
       THEN Outcome(ErrorDict("absent", "Option has already expired"), <<tte>>, <<>>, <<>>)
       ELSE IF greeks.status = "raised"
       THEN Outcome(ErrorDict("absent", "Failed to calculate Greeks"), <<tte>>, <<a>>, <<greeks>>)
       ELSE Outcome(SuccessDict("absent", spot_price[1], greeks), <<tte>>, <<a>>, <<greeks>>)

\* market_parser_demo.py, PolygonMCPClient.calculate_option_greeks
calculate_option_greeks_demo(q, p, t) ==
    LET stock_data == get_stock_price_demo(p)
        spot_price == stock_data.price
        tte == TimeToExpiry(q.expiration_date, t)
        volatility == IF q.volatility = <<>> THEN DefaultVolatility ELSE q.volatility[1]
        a == EngineArgs(spot_price[1], q.strike_price, tte, volatility, q.option_type)
        greeks == calculate_greeks_demo(a)
    IN IF stock_data.error # <<>>
       THEN Outcome(ErrorDict("absent", stock_data.error[1]), <<>>, <<>>, <<>>)
       ELSE IF q.expiration_date = BadDate
       THEN Outcome(ErrorDict("absent", "Failed to calculate Greeks"), <<>>, <<>>, <<>>)
       ELSE IF tte <= 0
       THEN Outcome(ErrorDict("absent", "Option has already expired"), <<tte>>, <<>>, <<>>)
       ELSE IF greeks.status = "raised"
       THEN Outcome(ErrorDict("absent", "Failed to calculate Greeks"), <<tte>>, <<a>>, <<greeks>>)
       ELSE Outcome(SuccessDict("absent", spot_price[1], greeks), <<tte>>, <<a>>, <<greeks>>)

\* The client of the program i.
calculate_option_greeks(i, q, p, t) ==
    CASE i \in {"server", "sse"}  -> calculate_option_greeks_server(q, p, t)
      [] i \in {"clean", "stdio"} -> calculate_option_greeks_clean(q, p, t)
      [] i = "demo"               -> calculate_option_greeks_demo(q, p, t)

\* What a response did with a request whose time_to_expiry is <= 0.
ExpiryPolicy(o) ==
    IF o.response.error = <<"Option has already expired">> THEN "rejected"
    ELSE IF o.response.greeks # <<>> THEN "payoff"
    ELSE "failed"

-----------------------------------------------------------------------------
(* polygon_mcp_server.py, PolygonMCPClient.analyze_options_strategy.  A leg *)
(* has strike_price, expiration_date, option_type, action (optional),      *)
(* quantity (optional) and volatility (optional).  The coroutine is suspended at    *)
(* its own get_stock_price and at the get_stock_price of every leg's       *)
(* calculate_option_greeks; the strategy record keeps its local variables  *)
(* across the suspensions, with the provider's answers and the clock       *)
(* readings it has consumed and the greeks_data each leg received.         *)

NoStrategy ==
    [pc |-> "idle", legs |-> <<>>, p0 |-> <<>>, spot_price |-> <<>>,
     totals |-> <<>>, answers |-> <<>>, result |-> <<>>]

\* ZeroTotals with total_delta started at 1.
ZeroTotals_from_one ==
    [status |-> "ok", delta |-> ONE, gamma |-> 0, theta |-> 0, vega |-> 0]

\* total_delta = total_gamma = total_theta = total_vega = 0
ZeroTotals ==
    [status |-> "ok", delta |-> 0, gamma |-> 0, theta |-> 0, vega |-> 0]

\* multiplier with the action ignored.
multiplier_unsigned(leg) ==
    IF leg.quantity = <<>> THEN 1 ELSE leg.quantity[1]

\* multiplier with the action compared ignoring case.
multiplier_ignoring_case(leg) ==
    (IF leg.quantity = <<>> THEN 1 ELSE leg.quantity[1])
        * (IF leg.action \in {<<"buy">>, <<"BUY">>} THEN 1 ELSE -1)

\* leg.get("quantity", 1) * (1 if leg.get("action") == "buy" else -1)
multiplier(leg) ==
    (IF leg.quantity = <<>> THEN 1 ELSE leg.quantity[1])
        * (IF leg.action = <<"buy">> THEN 1 ELSE -1)

\* The arguments of the leg's calculate_option_greeks call;
\* volatility = leg.get("volatility", 0.25).
LegRequest(leg) ==
    [strike_price |-> leg.strike_price, expiration_date |-> leg.expiration_date,
     option_type |-> leg.option_type,
     volatility |-> IF leg.volatility = <<>> THEN <<DefaultVolatility>>
                    ELSE leg.volatility]

\* greeks_data of one leg, for the provider's answer p at the time t.
LegGreeksData(leg, p, t) ==
    calculate_option_greeks_server(LegRequest(leg), p, t).response

\* add_leg with  =  in the place of  += .
add_leg_overwriting(totals, greeks_data, leg) ==
    IF greeks_data.greeks = <<>> THEN totals
    ELSE IF totals.status # "ok" \/ greeks_data.greeks[1].status # "ok" THEN NonFinite
    ELSE LET g == greeks_data.greeks[1]
             m == multiplier(leg)
         IN [status |-> "ok", delta |-> g.delta * m, gamma |-> g.gamma * m,
             theta |-> g.theta * m, vega |-> g.vega * m]

\* The body of the loop after the await: a leg whose greeks_data has no
\* "greeks" key adds nothing; a nan among the values makes the sums nan.
add_leg(totals, greeks_data, leg) ==
    IF greeks_data.greeks = <<>> THEN totals
    ELSE IF totals.status # "ok" \/ greeks_data.greeks[1].status # "ok" THEN NonFinite
    ELSE LET g == greeks_data.greeks[1]
             m == multiplier(leg)
         IN [status |-> "ok",
             delta |-> totals.delta + g.delta * m,
             gamma |-> totals.gamma + g.gamma * m,
             theta |-> totals.theta + g.theta * m,
             vega |-> totals.vega + g.vega * m]

\* net_delta .. net_vega = round(total, 4)
net_greeks(totals) ==
    IF totals.status # "ok" THEN NonFinite
    ELSE [status |-> "ok",
          net_delta |-> Round4(totals.delta), net_gamma |-> Round4(totals.gamma),
          net_theta |-> Round4(totals.theta), net_vega |-> Round4(totals.vega)]

\* The dict returned: get_stock_price's error dict, or strategy_analysis.
StrategyError(stock_data) ==
    [status |-> stock_data.status, error |-> stock_data.error,
     spot_price |-> <<>>, analysis |-> <<>>]

StrategyAnalysis(spot_price, totals) ==
    [status |-> "success", error |-> <<>>, spot_price |-> spot_price,
     analysis |-> <<net_greeks(totals)>>]

\* The coroutine from the answer p to its own get_stock_price up to the
\* first leg's await, or to its return when there is no leg to evaluate.
strategy_begin(legs, p) ==
    LET stock_data == get_stock_price_server(p)
        spot_price == PyOr(stock_data.price, stock_data.last_trade_price)
    IN IF stock_data.error # <<>>
       THEN [NoStrategy EXCEPT !.pc = "done", !.legs = legs, !.p0 = <<p>>,
                               !.result = <<StrategyError(stock_data)>>]
       ELSE IF legs = <<>>
       THEN [NoStrategy EXCEPT !.pc = "done", !.legs = legs, !.p0 = <<p>>,
                               !.spot_price = spot_price, !.totals = <<ZeroTotals>>,
                               !.result = <<StrategyAnalysis(spot_price, ZeroTotals)>>]
       ELSE [NoStrategy EXCEPT !.pc = "legs", !.legs = legs, !.p0 = <<p>>,
                               !.spot_price = spot_price, !.totals = <<ZeroTotals>>]

\* strategy_resume with the sums started again after the suspension.
strategy_resume_restarting(s, p, t) ==
    LET leg == s.legs[Len(s.answers) + 1]
        greeks_data == LegGreeksData(leg, p, t)
        totals == add_leg(ZeroTotals, greeks_data, leg)
        answers == Append(s.answers, [p |-> p, t |-> t, greeks_data |-> greeks_data])
    IN IF Len(answers) = Len(s.legs)
       THEN [s EXCEPT !.pc = "done", !.totals = <<totals>>, !.answers = answers,
                      !.result = <<StrategyAnalysis(s.spot_price, totals)>>]
       ELSE [s EXCEPT !.totals = <<totals>>, !.answers = answers]

\* The coroutine from the answer p to the current leg's get_stock_price,
\* read at the time t, up to the next leg's await or to its return.
strategy_resume(s, p, t) ==
    LET leg == s.legs[Len(s.answers) + 1]
        greeks_data == LegGreeksData(leg, p, t)
        totals == add_leg(s.totals[1], greeks_data, leg)
        answers == Append(s.answers, [p |-> p, t |-> t, greeks_data |-> greeks_data])
    IN IF Len(answers) = Len(s.legs)
       THEN [s EXCEPT !.pc = "done", !.totals = <<totals>>, !.answers = answers,
                      !.result = <<StrategyAnalysis(s.spot_price, totals)>>]
       ELSE [s EXCEPT !.totals = <<totals>>, !.answers = answers]

\* The loop  for leg in legs  from the leg i on, answers[i] being what the
\* leg i receives from the provider and reads from the clock.
RECURSIVE strategy_loop(_, _, _, _)
strategy_loop(legs, answers, i, totals) ==
    IF i > Len(legs) THEN totals
    ELSE strategy_loop(legs, answers, i + 1,
                       add_leg(totals,
                               LegGreeksData(legs[i], answers[i].p, answers[i].t),
                               legs[i]))

\* One uninterrupted run of analyze_options_strategy: what it returns.
analyze_options_strategy(legs, p0, answers) ==
    LET stock_data == get_stock_price_server(p0)
        spot_price == PyOr(stock_data.price, stock_data.last_trade_price)
    IN IF stock_data.error # <<>> THEN StrategyError(stock_data)
       ELSE StrategyAnalysis(spot_price, strategy_loop(legs, answers, 1, ZeroTotals))

-----------------------------------------------------------------------------
(* polygon_mcp_server.py, the MCP server process: the module-level          *)
(* polygon_client, the lifespan that creates and closes it, and the tool    *)
(* and resource functions.  A tool function returns a text or raises to     *)
(* the MCP framework; what it did is kept as a record with the dict its     *)
(* client method returned (if it was called), the outcome, whether the      *)
(* market-data provider was asked, and the engine call made (if any).       *)

NoServer == [polygon_client |-> "None", lifespan |-> "idle", env |-> <<>>, call |-> <<>>]

ToolText(text) == [kind |-> "text", text |-> text]
ToolRaised(exception) == [kind |-> "raised", text |-> exception]

Served(result, out, provider_asked, call) ==
    [result |-> result, out |-> out, provider_asked |-> provider_asked,
     engine_call |-> call]

\* if not polygon_client: return "Error: Polygon client not initialized"
NotInitialized ==
    Served(<<>>, ToolText("Error: Polygon client not initialized"), FALSE, <<>>)

Min(a, b) == IF a < b THEN a ELSE b

\* PolygonMCPClient.get_options_chain.  An answer c of the provider: c.raises
\* (list_options_contracts fails), c.contracts (how many contracts),
\* c.snapshots_raise (list_snapshot_options_chain fails) and c.snapshots.
get_options_chain(c) ==
    IF c.raises
    THEN [status |-> "error", error |-> <<"provider error">>,
          contracts_count |-> <<>>, contracts |-> <<>>, snapshots |-> <<>>]
    ELSE [status |-> "success", error |-> <<>>,
          contracts_count |-> <<c.contracts>>,
          contracts |-> <<Min(c.contracts, 50)>>,
          snapshots |-> <<IF c.snapshots_raise THEN 0 ELSE Min(c.snapshots, 20)>>]

\* PolygonMCPClient.get_unusual_options_activity: a placeholder dict.
get_unusual_options_activity ==
    [status |-> "success", error |-> <<>>, put_call_ratio |-> <<>>]

\* The tool get_stock_price: the success text formats result['price'] with
\* :.2f and the volume with :, which raise TypeError on None; both are None
\* when the previous-close list is empty.
tool_get_stock_price(client, p) ==
    IF client = "None" THEN NotInitialized
    ELSE LET result == get_stock_price_server(p)
         IN IF result.status = "success"
            THEN IF result.price = <<>>
                 THEN Served(<<result>>, ToolRaised("TypeError"), TRUE, <<>>)
                 ELSE Served(<<result>>, ToolText("Stock Price"), TRUE, <<>>)
            ELSE Served(<<result>>, ToolText("Error getting stock price"), TRUE, <<>>)

\* The tool get_options_chain.
tool_get_options_chain(client, c) ==
    IF client = "None" THEN NotInitialized
    ELSE LET result == get_options_chain(c)
         IN IF result.status = "success"
            THEN Served(<<result>>, ToolText("Options Chain"), TRUE, <<>>)
            ELSE Served(<<result>>, ToolText("Error getting options chain"), TRUE, <<>>)

\* The tool calculate_option_greeks; the success text formats a spot price
\* that is a number and the Greeks, numbers or nan.
tool_calculate_option_greeks(client, q, p, t) ==
    IF client = "None" THEN NotInitialized
    ELSE LET o == calculate_option_greeks_server(q, p, t)
         IN IF o.response.status = "success"
            THEN Served(<<o.response>>, ToolText("Options Greeks"), TRUE, o.engine_call)
            ELSE Served(<<o.response>>, ToolText("Error calculating Greeks"), TRUE,
                        o.engine_call)

\* The tool analyze_options_strategy: legs is a JSON text, valid or not; the
\* success text formats result['spot_price'] with :.2f, which raises
\* TypeError on None.
tool_analyze_options_strategy(client, valid_json, legs, p0, answers) ==
    IF client = "None" THEN NotInitialized
    ELSE IF ~valid_json
    THEN Served(<<>>, ToolText("Error: Invalid JSON format for legs parameter"), FALSE, <<>>)
    ELSE LET result == analyze_options_strategy(legs, p0, answers)
         IN IF result.status = "success"
            THEN IF result.spot_price = <<>>
                 THEN Served(<<result>>, ToolRaised("TypeError"), TRUE, <<>>)
                 ELSE Served(<<result>>, ToolText("Options Strategy Analysis"), TRUE, <<>>)
            ELSE Served(<<result>>, ToolText("Error analyzing strategy"), TRUE, <<>>)

\* lifespan up to its yield: os.getenv, the check of the key and the
\* assignment of polygon_client.  polygon_mcp_server_sse.py also accepts API_KEY.
lifespan_startup(i, server, env) ==
    IF env.POLYGON_API_KEY \/ (i = "sse" /\ env.API_KEY)
    THEN [server EXCEPT !.polygon_client = "open", !.lifespan = "serving", !.env = <<env>>]
    ELSE [server EXCEPT !.lifespan = "failed", !.env = <<env>>]

\* lifespan after its yield: the finally block closes the client.
lifespan_shutdown(server) ==
    [server EXCEPT !.polygon_client = IF @ = "None" THEN @ ELSE "closed",
                   !.lifespan = "stopped"]

\* What a tool or resource function did, as kept in mcp.call.
Called(tool, client, input, served) ==
    <<[tool |-> tool, client |-> client, input |-> input, result |-> served.result,
       out |-> served.out, provider_asked |-> served.provider_asked,
       engine_call |-> served.engine_call]>>

\* The tool get_unusual_options_activity.
tool_get_unusual_options_activity(client) ==
    IF client = "None" THEN NotInitialized
    ELSE Served(<<get_unusual_options_activity>>, ToolText("Unusual Options Activity"),
                FALSE, <<>>)

\* tool_get_market_status without the check of polygon_client: the access
\* to polygon_client.client fails inside the try.
tool_get_market_status_unchecked(client, raises) ==
    IF client = "None" \/ raises
    THEN Served(<<>>, ToolText("Error getting market status"), client # "None", <<>>)
    ELSE Served(<<>>, ToolText("Market Status"), TRUE, <<>>)

\* The tool get_market_status asks the provider itself, inside a try.
tool_get_market_status(client, raises) ==
    IF client = "None" THEN NotInitialized
    ELSE IF raises
    THEN Served(<<>>, ToolText("Error getting market status"), TRUE, <<>>)
    ELSE Served(<<>>, ToolText("Market Status"), TRUE, <<>>)

-----------------------------------------------------------------------------
(* The inputs, and the state machine: a caller invokes one operation of    *)
(* the running program, receives its result and goes on; the clock         *)
(* advances between operations.                                            *)

Impls == {"server", "sse", "clean", "stdio", "demo"}

MaxNow == 2

SpotPrices == {0, 90 * ONE, 100 * ONE, 150 * ONE}
StrikePrices == {100 * ONE, 150 * ONE}
Times == {-(ONE \div 4), 0, ONE \div 365, ONE \div 4}
Rates == {0, DefaultRate}
Volatilities == {0, DefaultVolatility}
OptionTypes == {"call", "put", "CALL", "straddle"}

Providers ==
    {[raises |-> TRUE, prev_close |-> <<>>, last_trade |-> <<>>]}
    \cup [raises : {FALSE},
          prev_close : {<<>>, <<0>>, <<150 * ONE>>},
          last_trade : {<<>>, <<90 * ONE>>}]

ExpirationDates == {BadDate, 0, 1, 92}

Requests ==
    [strike_price : {100 * ONE},
     expiration_date : ExpirationDates,
     option_type : OptionTypes,
     volatility : {<<>>, <<0>>, <<4 * (ONE \div 10)>>}]

Init ==
    /\ impl \in Impls
    /\ now = 0
    /\ pc = "idle"
    /\ engine_call = <<>>
    /\ engine_result = <<>>
    /\ request = <<>>
    /\ response = <<>>
    /\ expiry_policies = {}
    /\ strategy = NoStrategy
    /\ mcp = NoServer

\* A direct call of calculate_greeks.
CalculateGreeks ==
    /\ pc = "idle"
    /\ \E S \in SpotPrices, K \in StrikePrices, T \in Times, r \in Rates,
          v \in Volatilities, type \in OptionTypes :
          LET a == [spot_price |-> S, strike_price |-> K, time_to_expiry |-> T,
                    risk_free_rate |-> r, volatility |-> v, option_type |-> type]
          IN /\ engine_call' = <<a>>
             /\ engine_result' = <<calculate_greeks(impl, a)>>
    /\ pc' = "returned"
    /\ UNCHANGED <<impl, now, request, response, expiry_policies, strategy, mcp>>

\* A request to the client's calculate_option_greeks, with the provider's answer.
CalculateOptionGreeks ==
    /\ pc = "idle"
    /\ \E q \in Requests, p \in Providers :
          \E o \in {calculate_option_greeks(impl, q, p, now)} :
             /\ request' = <<q>>
             /\ response' = <<o.response>>
             /\ engine_call' = o.engine_call
             /\ engine_result' = o.engine_result
             /\ expiry_policies' =
                   IF o.time_to_expiry # <<>> /\ o.time_to_expiry[1] <= 0
                   THEN expiry_policies \cup {ExpiryPolicy(o)}
                   ELSE expiry_policies
    /\ pc' = "returned"
    /\ UNCHANGED <<impl, now, strategy, mcp>>

\* The caller has read the result.
Return ==
    /\ pc = "returned"
    /\ pc' = "idle"
    /\ engine_call' = <<>>
    /\ engine_result' = <<>>
    /\ request' = <<>>
    /\ response' = <<>>
    /\ UNCHANGED <<impl, now, expiry_policies, strategy, mcp>>

\* Time passes.
Tick ==
    /\ pc = "idle"
    /\ now < MaxNow
    /\ now' = now + 1
    /\ UNCHANGED <<impl, pc, engine_call, engine_result, request, response, expiry_policies,
                   strategy, mcp>>

Next == CalculateGreeks \/ CalculateOptionGreeks \/ Return \/ Tick

Spec == Init /\ [][Next]_vars

-----------------------------------------------------------------------------
(* The strategy requests of polygon_mcp_server.py: one                     *)
(* analyze_options_strategy request runs from await to await, while the    *)
(* clock advances, the provider's answers change and calculate_greeks      *)
(* calls are served in between.                                            *)

StrategyProviders ==
    {[raises |-> TRUE, prev_close |-> <<>>, last_trade |-> <<>>]}
    \cup [raises : {FALSE},
          prev_close : {<<>>, <<150 * ONE>>},
          last_trade : {<<90 * ONE>>}]

Legs ==
    [strike_price : {100 * ONE},
     expiration_date : {0, 92},
     option_type : {"call", "put"},
     action : {<<"buy">>, <<"sell">>, <<"BUY">>, <<>>},
     quantity : {<<>>, <<2>>},
     volatility : {<<>>}]

\* The leg lists of a request: no leg, one leg, or two legs of the default
\* quantity, the first bought and the second bought or sold.
LegLists ==
    {<<>>} \cup {<<leg>> : leg \in Legs}
           \cup {<<l1, l2>> :
                    l1 \in {l \in Legs : l.quantity = <<>> /\ l.action = <<"buy">>},
                    l2 \in {l \in Legs : l.quantity = <<>>
                                          /\ l.action \in {<<"buy">>, <<"sell">>}}}

InitStrategy ==
    /\ impl = "server"
    /\ now = 0
    /\ pc = "idle"
    /\ engine_call = <<>>
    /\ engine_result = <<>>
    /\ request = <<>>
    /\ response = <<>>
    /\ expiry_policies = {}
    /\ strategy = NoStrategy
    /\ mcp = NoServer

\* A request arrives and the provider answers its get_stock_price.
AnalyzeOptionsStrategy ==
    /\ strategy.pc = "idle"
    /\ \E legs \in LegLists, p \in StrategyProviders :
          strategy' = strategy_begin(legs, p)
    /\ UNCHANGED <<impl, now, pc, engine_call, engine_result, request, response,
                   expiry_policies, mcp>>

\* The provider answers the get_stock_price of the current leg.
StrategyLeg ==
    /\ strategy.pc = "legs"
    /\ \E p \in StrategyProviders :
          strategy' = strategy_resume(strategy, p, now)
    /\ UNCHANGED <<impl, now, pc, engine_call, engine_result, request, response,
                   expiry_policies, mcp>>

\* The caller of the strategy request has read the result.
StrategyReturn ==
    /\ strategy.pc = "done"
    /\ strategy' = NoStrategy
    /\ UNCHANGED <<impl, now, pc, engine_call, engine_result, request, response,
                   expiry_policies, mcp>>

\* A calculate_greeks call served while a strategy request is suspended.
ConcurrentCalculateGreeks ==
    /\ pc = "idle"
    /\ strategy.pc = "legs"
    /\ LET a == [spot_price |-> 150 * ONE, strike_price |-> 100 * ONE,
                 time_to_expiry |-> ONE \div 4, risk_free_rate |-> DefaultRate,
                 volatility |-> DefaultVolatility, option_type |-> "put"]
       IN /\ engine_call' = <<a>>
          /\ engine_result' = <<calculate_greeks(impl, a)>>
    /\ pc' = "returned"
    /\ UNCHANGED <<impl, now, request, response, expiry_policies, strategy, mcp>>

NextStrategy ==
    \/ AnalyzeOptionsStrategy
    \/ StrategyLeg
    \/ StrategyReturn
    \/ ConcurrentCalculateGreeks
    \/ Return
    \/ Tick

SpecStrategy == InitStrategy /\ [][NextStrategy]_vars

-----------------------------------------------------------------------------
(* The MCP server process of polygon_mcp_server.py and                     *)
(* polygon_mcp_server_sse.py: the lifespan starts and stops once, and the  *)
(* tool and resource functions are called at any time, each call running   *)
(* to its return with the answers of the provider.  The lifespan and the   *)
(* clock move on between a call's return and the caller's reading of it.   *)

Environments == [POLYGON_API_KEY : BOOLEAN, API_KEY : BOOLEAN]

ChainAnswers ==
    {[raises |-> TRUE, contracts |-> 0, snapshots_raise |-> FALSE, snapshots |-> 0]}
    \cup [raises : {FALSE}, contracts : {0, 3, 60},
          snapshots_raise : BOOLEAN, snapshots : {0, 25}]

\* The legs parameter of the tool analyze_options_strategy, once parsed.
ToolLegLists ==
    {<<>>} \cup {<<leg>> : leg \in {l \in Legs : l.quantity = <<>>
                                               /\ l.action \in {<<"buy">>, <<"sell">>}}}

InitTools ==
    /\ impl \in {"server", "sse"}
    /\ now = 0
    /\ pc = "idle"
    /\ engine_call = <<>>
    /\ engine_result = <<>>
    /\ request = <<>>
    /\ response = <<>>
    /\ expiry_policies = {}
    /\ strategy = NoStrategy
    /\ mcp = NoServer

ToolUnchanged ==
    UNCHANGED <<impl, now, pc, engine_call, engine_result, request, response,
                expiry_policies, strategy>>

\* The framework enters the lifespan.
LifespanStartup ==
    /\ mcp.lifespan = "idle"
    /\ \E env \in Environments : mcp' = lifespan_startup(impl, mcp, env)
    /\ ToolUnchanged

\* The framework leaves the lifespan.
LifespanShutdown ==
    /\ mcp.lifespan = "serving"
    /\ mcp' = lifespan_shutdown(mcp)
    /\ ToolUnchanged

ToolGetStockPrice ==
    /\ mcp.call = <<>>
    /\ \E p \in Providers :
          \E o \in {tool_get_stock_price(mcp.polygon_client, p)} :
             mcp' = [mcp EXCEPT !.call = Called("get_stock_price", mcp.polygon_client, p, o)]
    /\ ToolUnchanged

ToolGetOptionsChain ==
    /\ mcp.call = <<>>
    /\ \E c \in ChainAnswers :
          \E o \in {tool_get_options_chain(mcp.polygon_client, c)} :
             mcp' = [mcp EXCEPT !.call = Called("get_options_chain", mcp.polygon_client, c, o)]
    /\ ToolUnchanged

ToolCalculateOptionGreeks ==
    /\ mcp.call = <<>>
    /\ \E q \in Requests, p \in Providers :
          \E o \in {tool_calculate_option_greeks(mcp.polygon_client, q, p, now)} :
             mcp' = [mcp EXCEPT !.call = Called("calculate_option_greeks", mcp.polygon_client,
                                                [q |-> q, p |-> p, t |-> now], o)]
    /\ ToolUnchanged

\* polygon_mcp_server.py only.
ToolAnalyzeOptionsStrategy ==
    /\ impl = "server"
    /\ mcp.call = <<>>
    /\ \E valid_json \in BOOLEAN, legs \in ToolLegLists, p0 \in Providers,
          p1 \in StrategyProviders :
          /\ ~valid_json => (legs = <<>> /\ p0.raises /\ p1.raises)
          /\ \E o \in {tool_analyze_options_strategy(mcp.polygon_client, valid_json, legs, p0,
                                                       <<[p |-> p1, t |-> now]>>)} :
                mcp' = [mcp EXCEPT !.call =
                           Called("analyze_options_strategy", mcp.polygon_client,
                                  [valid_json |-> valid_json, legs |-> legs, p0 |-> p0,
                                   p1 |-> p1],
                                  o)]
    /\ ToolUnchanged

\* polygon_mcp_server.py only.
ToolGetUnusualOptionsActivity ==
    /\ impl = "server"
    /\ mcp.call = <<>>
    /\ \E o \in {tool_get_unusual_options_activity(mcp.polygon_client)} :
          mcp' = [mcp EXCEPT !.call = Called("get_unusual_options_activity",
                                             mcp.polygon_client, <<>>, o)]
    /\ ToolUnchanged

ToolGetMarketStatus ==
    /\ mcp.call = <<>>
    /\ \E raises \in BOOLEAN :
          \E o \in {tool_get_market_status(mcp.polygon_client, raises)} :
             mcp' = [mcp EXCEPT !.call = Called("get_market_status", mcp.polygon_client,
                                                raises, o)]
    /\ ToolUnchanged

\* The resources market://status, options://chain/{symbol} and
\* stock://price/{symbol} await the tool functions.
ReadResource ==
    /\ mcp.call = <<>>
    /\ \/ \E raises \in BOOLEAN :
             \E o \in {tool_get_market_status(mcp.polygon_client, raises)} :
                mcp' = [mcp EXCEPT !.call = Called("market_status_resource",
                                                   mcp.polygon_client, raises, o)]
       \/ \E c \in ChainAnswers :
             \E o \in {tool_get_options_chain(mcp.polygon_client, c)} :
                mcp' = [mcp EXCEPT !.call = Called("options_chain_resource",
                                                   mcp.polygon_client, c, o)]
       \/ \E p \in Providers :
             \E o \in {tool_get_stock_price(mcp.polygon_client, p)} :
                mcp' = [mcp EXCEPT !.call = Called("stock_price_resource",
                                                   mcp.polygon_client, p, o)]
    /\ ToolUnchanged

\* The caller of the tool or resource has read the outcome.
ToolReturn ==
    /\ mcp.call # <<>>
    /\ mcp' = [mcp EXCEPT !.call = <<>>]
    /\ ToolUnchanged

NextTools ==
    \/ LifespanStartup
    \/ LifespanShutdown
    \/ ToolGetStockPrice
    \/ ToolGetOptionsChain
    \/ ToolCalculateOptionGreeks
    \/ ToolAnalyzeOptionsStrategy
    \/ ToolGetUnusualOptionsActivity
    \/ ToolGetMarketStatus
    \/ ReadResource
    \/ ToolReturn
    \/ Tick

SpecTools == InitTools /\ [][NextTools]_vars

-----------------------------------------------------------------------------
(* Properties.  A state with pc = "returned" shows one finished operation: *)
(* the engine call it made (if any) with its result, and for a client      *)
(* request the response.                                                   *)

EngineCalled == engine_call # <<>>
Args == engine_call[1]
Result == engine_result[1]

\* spot_price > 0, strike_price > 0 and volatility > 0.
ValidInputs(a) == a.spot_price > 0 /\ a.strike_price > 0 /\ a.volatility > 0

\* C1: in polygon_mcp_server.py and polygon_mcp_server_sse.py every call of
\* calculate_greeks with time_to_expiry <= 0 returns, without evaluating d1
\* and d2 (so also for inputs on which they are undefined), gamma = theta =
\* vega = rho = 0, implied_volatility = the volatility argument and, for a
\* call, delta = 1 if spot_price > strike_price and 0 otherwise.
C1_ExpiredShortCircuit ==
    (impl \in {"server", "sse"} /\ EngineCalled /\ Args.time_to_expiry <= 0) =>
        /\ Result.status = "ok"
        /\ Result.gamma = 0 /\ Result.theta = 0 /\ Result.vega = 0 /\ Result.rho = 0
        /\ Result.implied_volatility = <<Args.volatility>>
        /\ Lower(Args.option_type) = "call" =>
              Result.delta = IF Args.spot_price > Args.strike_price THEN ONE ELSE 0

\* An in-the-money call at time_to_expiry < 0 with volatility 0 (d1 would
\* divide by zero) has returned delta 1.
C1_Witness ==
    /\ impl = "sse" /\ EngineCalled
    /\ Args.time_to_expiry < 0 /\ Args.volatility = 0
    /\ Args.option_type = "call" /\ Args.spot_price > Args.strike_price
    /\ Result.status = "ok" /\ Result.delta = ONE

\* C2: with time_to_expiry <= 0 a put gets the put's immediate-payoff delta:
\* -1 when spot_price < strike_price, 0 otherwise.
C2_ExpiredPutDelta ==
    (impl \in {"server", "sse"} /\ EngineCalled /\ Args.time_to_expiry <= 0
       /\ Args.spot_price > 0 /\ Lower(Args.option_type) = "put") =>
        /\ Result.status = "ok"
        /\ Result.delta = IF Args.spot_price < Args.strike_price THEN -ONE ELSE 0

\* C3: all requests of one program whose computed time_to_expiry is <= 0 get
\* one and the same expiry policy: all rejected, or all given the
\* immediate-payoff Greeks.
C3_OneExpiryPolicy == Cardinality(expiry_policies) <= 1

\* The interest term of theta and the time-decay term, as the formulas of
\* the specification write them.
DecayTerm(a, m) ==
    FDiv(FMul(FMul(-a.spot_price, m.pdf), a.volatility), 2 * m.sqrtT)

InterestTerm(a, m, cdf) ==
    FMul(FMul(FMul(a.risk_free_rate, a.strike_price), m.disc), cdf)

\* C4: for a put with time_to_expiry > 0 every copy returns
\* theta = (-spot*n(d1)*vol/(2*sqrt(T)) + r*strike*exp(-r*T)*N(-d2)) / 365,
\* rounded: the interest term is added.
C4_PutThetaAddsInterest ==
    (EngineCalled /\ Args.time_to_expiry > 0 /\ ValidInputs(Args)
       /\ Lower(Args.option_type) = "put") =>
        LET m == Terms(Args)
        IN /\ Result.status = "ok"
           /\ Result.theta =
                 Round4(IDiv(DecayTerm(Args, m)
                               + InterestTerm(Args, m, NormCdf(-m.d2)), 365))

\* C5: for a put with time_to_expiry > 0 every copy returns
\* rho = -strike*T*exp(-r*T)*N(-d2)/100, rounded, which is never positive;
\* a call's rho is never negative.
C5_PutRhoNegative ==
    (EngineCalled /\ Args.time_to_expiry > 0 /\ ValidInputs(Args)) =>
        LET m == Terms(Args)
        IN /\ Result.status = "ok"
           /\ Lower(Args.option_type) = "put" =>
                 /\ Result.rho =
                       Round4(IDiv(FMul(FMul(FMul(-Args.strike_price,
                                                  Args.time_to_expiry), m.disc),
                                        NormCdf(-m.d2)), 100))
                 /\ Result.rho <= 0
           /\ Lower(Args.option_type) = "call" => Result.rho >= 0

\* The same call with the other option type.
Flipped(a) ==
    [a EXCEPT !.option_type = IF IsCall(a) THEN "put" ELSE "call"]

CallOrPut(a) == Lower(a.option_type) \in {"call", "put"}

\* C6: for identical valid (spot, strike, T, r, vol), T positive, zero or
\* negative, the call's delta minus the put's delta is 1.
C6_DeltaParity ==
    (EngineCalled /\ ValidInputs(Args) /\ CallOrPut(Args) /\ Result.status = "ok") =>
        LET other == calculate_greeks(impl, Flipped(Args))
        IN /\ other.status = "ok"
           /\ (IF IsCall(Args) THEN Result.delta - other.delta
                               ELSE other.delta - Result.delta) = ONE

C8_GammaVegaSame ==
    (EngineCalled /\ CallOrPut(Args) /\ Result.status = "ok") =>
        LET other == calculate_greeks(impl, Flipped(Args))
        IN /\ other.status = "ok"
           /\ other.gamma = Result.gamma
           /\ other.vega = Result.vega

\* A put on the formula path has returned a positive gamma and vega.
C8_Witness ==
    /\ EngineCalled /\ Args.time_to_expiry > 0 /\ Args.option_type = "put"
    /\ Result.status = "ok" /\ Result.gamma > 0 /\ Result.vega > 0

\* The call formulas of the specification, rounded.
SpecCallGreeks(a) ==
    LET m == Terms(a)
    IN [delta |-> Round4(NormCdf(m.d1)),
        gamma |-> Round4(FDiv(m.pdf, FMul(FMul(a.spot_price, a.volatility), m.sqrtT))),
        theta |-> Round4(IDiv(DecayTerm(a, m) - InterestTerm(a, m, NormCdf(m.d2)), 365)),
        vega |-> Round4(IDiv(FMul(FMul(a.spot_price, m.pdf), m.sqrtT), 100)),
        rho |-> Round4(IDiv(FMul(FMul(FMul(a.strike_price, a.time_to_expiry), m.disc),
                                 NormCdf(m.d2)), 100))]

Sensitivities(g) ==
    [delta |-> g.delta, gamma |-> g.gamma, theta |-> g.theta, vega |-> g.vega,
     rho |-> g.rho]

\* C9: for a call with time_to_expiry > 0 every copy returns the values of
\* the specification's expressions (theta per calendar day, vega and rho per
\* percentage point), so the five copies return the same five values.
C9_CallCopiesAgree ==
    (EngineCalled /\ ValidInputs(Args) /\ Args.time_to_expiry > 0 /\ IsCall(Args)) =>
        /\ Result.status = "ok"
        /\ Sensitivities(Result) = SpecCallGreeks(Args)
        /\ \A i \in Impls :
              /\ calculate_greeks(i, Args).status = "ok"
              /\ Sensitivities(calculate_greeks(i, Args)) = Sensitivities(Result)

\* A call on the formula path has returned a non-zero theta, vega and rho.
C9_Witness ==
    /\ impl = "stdio" /\ EngineCalled /\ Args.option_type = "call"
    /\ Args.time_to_expiry > 0 /\ Result.status = "ok"
    /\ Result.theta < 0 /\ Result.vega > 0 /\ Result.rho > 0

IsRounded(x, raw) == x % 100 = 0 /\ Abs(x - raw) <= 50

\* C10: each returned sensitivity is a multiple of 0.0001, and on the formula
\* path it is within 0.00005 of the unrounded value of the formula.
C10_RoundedTo4 ==
    (EngineCalled /\ Result.status = "ok") =>
        /\ \A x \in {Result.delta, Result.gamma, Result.theta, Result.vega, Result.rho} :
              x % 100 = 0
        /\ Args.time_to_expiry > 0 =>
              LET f == formula(impl, Args)
              IN /\ IsRounded(Result.delta, f.delta)
                 /\ IsRounded(Result.gamma, f.gamma)
                 /\ IsRounded(Result.theta, f.theta)
                 /\ IsRounded(Result.vega, f.vega)
                 /\ IsRounded(Result.rho, f.rho)

\* A result whose gamma was rounded up and whose vega was rounded down.
C10_Witness ==
    /\ EngineCalled /\ Args.time_to_expiry > 0 /\ Result.status = "ok"
    /\ LET f == formula(impl, Args)
       IN Result.gamma > f.gamma /\ Result.vega < f.vega

\* C11: every result of calculate_greeks, in every copy, carries the field
\* implied_volatility, and its value is the volatility argument.
C11_ImpliedVolatilityEchoed ==
    (EngineCalled /\ Result.status = "ok") =>
        Result.implied_volatility = <<Args.volatility>>

\* C12: calculate_greeks with time_to_expiry > 0 and a non-positive spot
\* price, strike price or volatility raises an error and returns no values.
C12_InvalidInputRaises ==
    (EngineCalled /\ Args.time_to_expiry > 0 /\ ~ValidInputs(Args)) =>
        Result.status = "raised"

\* C13: the volatility a client hands to the engine is the default 0.25
\* exactly when the request has no volatility, and otherwise the request's
\* volatility unchanged.
C13_VolatilityDefault ==
    (request # <<>> /\ EngineCalled) =>
        Args.volatility = IF request[1].volatility = <<>> THEN DefaultVolatility
                          ELSE request[1].volatility[1]

-----------------------------------------------------------------------------
(* Properties of analyze_options_strategy, stated of a finished request:   *)
(* strategy.legs are its legs, strategy.p0 the provider's answer to its    *)
(* own price request, strategy.answers[i] what the leg i received.         *)

StrategyDone == strategy.pc = "done"
StrategyResult == strategy.result[1]
StrategySucceeded == StrategyDone /\ StrategyResult.status = "success"
NetGreeks == StrategyResult.analysis[1]

\* The greeks_data the leg i of the finished request received.
GreeksDataOf(i) == strategy.answers[i].greeks_data

LegIndices == 1..Len(strategy.answers)

\* sign * quantity of a leg: +1 for buy, -1 for sell, a quantity of 1 when
\* the leg names none.
SignedQuantity(leg) ==
    (IF leg.action = <<"buy">> THEN 1 ELSE 0 - 1)
        * (IF leg.quantity = <<>> THEN 1 ELSE leg.quantity[1])

\* The sum over the legs 1..i of sign * quantity * the leg's Greek, data[i]
\* being the greeks_data of the leg i.
RECURSIVE SignedSum(_, _, _)
SignedSum(i, greek, data) ==
    IF i = 0 THEN 0
    ELSE SignedSum(i - 1, greek, data)
           + SignedQuantity(strategy.legs[i]) * data[i].greeks[1][greek]

\* C14: when every leg is a buy or a sell and its Greeks were computed, each
\* of net_delta, net_gamma, net_theta and net_vega is the sum over the legs
\* of sign * quantity * the leg's Greek, rounded to 4 decimals, with sign +1
\* for buy and -1 for sell.
C14_NetGreeksSignedSum ==
    (StrategySucceeded
       /\ \A i \in 1..Len(strategy.legs) :
              strategy.legs[i].action \in {<<"buy">>, <<"sell">>}) =>
        \E data \in {[i \in LegIndices |-> GreeksDataOf(i)]} :
            (\A i \in LegIndices : data[i].greeks # <<>>) =>
                /\ NetGreeks.status = "ok"
                /\ NetGreeks.net_delta = Round4(SignedSum(Len(data), "delta", data))
                /\ NetGreeks.net_gamma = Round4(SignedSum(Len(data), "gamma", data))
                /\ NetGreeks.net_theta = Round4(SignedSum(Len(data), "theta", data))
                /\ NetGreeks.net_vega = Round4(SignedSum(Len(data), "vega", data))

\* A bought and a sold leg, both computed, with net Greeks that do not cancel.
C14_Witness ==
    /\ StrategySucceeded /\ Len(strategy.legs) = 2
    /\ strategy.legs[1].action = <<"buy">> /\ strategy.legs[2].action = <<"sell">>
    /\ \A i \in LegIndices : GreeksDataOf(i).greeks # <<>>
    /\ NetGreeks.net_delta # 0 /\ NetGreeks.net_vega # 0

\* C15: a request one of whose legs fails (expired, no price, provider
\* error) does not return status success with the other legs' sums.
C15_NoPartialResults ==
    (StrategyDone /\ \E i \in LegIndices : GreeksDataOf(i).greeks = <<>>) =>
        StrategyResult.status # "success"

\* C16: every leg of a request is evaluated at the spot price that the
\* result reports, also when the provider's price changes meanwhile.
C16_SharedSpotPrice ==
    StrategySucceeded =>
        \A i \in LegIndices :
            GreeksDataOf(i).greeks # <<>> =>
                GreeksDataOf(i).spot_price = StrategyResult.spot_price

\* C17: a request with no legs and a resolved spot price returns success
\* with net_delta = net_gamma = net_theta = net_vega = 0.
C17_EmptyLegsZero ==
    (StrategyDone /\ strategy.legs = <<>> /\ StrategyResult.spot_price # <<>>) =>
        /\ StrategyResult.status = "success"
        /\ NetGreeks.status = "ok"
        /\ NetGreeks.net_delta = 0 /\ NetGreeks.net_gamma = 0
        /\ NetGreeks.net_theta = 0 /\ NetGreeks.net_vega = 0

\* A request without legs has returned at a resolved spot price.
C17_Witness ==
    /\ StrategySucceeded /\ strategy.legs = <<>>
    /\ StrategyResult.spot_price # <<>>

\* C18: the same two legs in the other order, each leg with the provider
\* answer and the clock reading it had, give the same result.
C18_OrderIndependent ==
    (StrategyDone /\ Len(strategy.answers) = 2) =>
        analyze_options_strategy(<<strategy.legs[2], strategy.legs[1]>>,
                                 strategy.p0[1],
                                 <<strategy.answers[2], strategy.answers[1]>>)
            = StrategyResult

\* Two legs whose Greeks differ were summed to a net delta that is not 0.
C18_Witness ==
    /\ StrategySucceeded /\ Len(strategy.answers) = 2
    /\ GreeksDataOf(1).greeks # <<>> /\ GreeksDataOf(2).greeks # <<>>
    /\ GreeksDataOf(1).greeks # GreeksDataOf(2).greeks
    /\ NetGreeks.net_delta # 0

-----------------------------------------------------------------------------
(* Further properties of the engine and of the clients.                    *)

\* |x - y| <= 0.0001
Within4(x, y) == Abs(x - y) <= 100

\* The concrete scenario: spot 150, strike 150, T 0.25, r 0.05, vol 0.25, call.
ScenarioCalled ==
    /\ EngineCalled
    /\ Args.spot_price = 150 * ONE /\ Args.strike_price = 150 * ONE
    /\ Args.time_to_expiry = ONE \div 4 /\ Args.risk_free_rate = DefaultRate
    /\ Args.volatility = DefaultVolatility /\ Lower(Args.option_type) = "call"

\* C21 as stated: the scenario returns delta 0.5398, gamma 0.0388 and vega
\* 14.6667, to 4 decimals.
C21_ScenarioAsStated ==
    ScenarioCalled =>
        /\ Result.status = "ok"
        /\ Within4(Result.delta, 539800)
        /\ Within4(Result.gamma, 38800)
        /\ Within4(Result.vega, 14666700)

\* C21 amended: the scenario returns delta 0.5645, gamma 0.0210 and vega
\* 0.2953, to 4 decimals (d1 = 0.1625).
C21_Scenario ==
    ScenarioCalled =>
        /\ Result.status = "ok"
        /\ Within4(Result.delta, 564500)
        /\ Within4(Result.gamma, 21000)
        /\ Within4(Result.vega, 295300)

\* The scenario has been computed.
C21_Witness == ScenarioCalled /\ Result.status = "ok"

\* C23: a call of the engine made by a client's calculate_option_greeks with
\* time_to_expiry <= 0 is answered by the short-circuit of
\* polygon_mcp_server.py / polygon_mcp_server_sse.py; the other clients make
\* no such call, so d1 and d2 are evaluated only with time_to_expiry > 0.
C23_FormulaOnlyBeforeExpiry ==
    (request # <<>> /\ EngineCalled /\ Args.time_to_expiry <= 0) =>
        /\ impl \in {"server", "sse"}
        /\ Result = expired_server(Args)

\* A request expiring today went through the client of polygon_mcp_server.py
\* to the engine, which short-circuited.
C23_Witness ==
    /\ request # <<>> /\ EngineCalled /\ Args.time_to_expiry = 0
    /\ impl = "server" /\ Result = expired_server(Args)
    /\ response[1].greeks = <<Result>>

\* C24: 'Option has already expired' is returned only when 00:00 of the
\* expiration date is not later than the current time.
C24_ExpiredOnlyWhenPast ==
    (request # <<>> /\ response[1].error = <<"Option has already expired">>) =>
        request[1].expiration_date * TicksPerDay <= now

\* The spellings of 'call' among the option types, ignoring case.
CallSpellings == {"call", "CALL", "Call"}

\* The arguments with the option type written  call  or  put .
TwoValued(a) ==
    [a EXCEPT !.option_type = IF a.option_type \in CallSpellings THEN "call" ELSE "put"]

\* C27: calculate_greeks returns for an option type that is 'call' in any
\* case what it returns for 'call', and for every other string what it
\* returns for 'put'; the option type causes no error.
C27_OptionTypeTwoValued ==
    EngineCalled => Result = calculate_greeks(impl, TwoValued(Args))

\* An upper-case CALL was computed on the formula path as a call.
C27_Witness ==
    /\ EngineCalled /\ Args.option_type = "CALL" /\ Args.time_to_expiry > 0
    /\ Result.status = "ok" /\ Result.delta > 0

\* C25: a computed leg counts with positive sign exactly when its action is
\* the string 'buy' ('sell', 'BUY' and a missing action count negative), and
\* with quantity 1 when it names none.
C25_SignByExactBuy ==
    (StrategySucceeded /\ Len(strategy.answers) = 1 /\ GreeksDataOf(1).greeks # <<>>) =>
        \E leg \in {strategy.legs[1]}, g \in {GreeksDataOf(1).greeks[1]} :
            \E weight \in {(IF leg.action = <<"buy">> THEN 1 ELSE 0 - 1)
                              * (IF leg.quantity = <<>> THEN 1 ELSE leg.quantity[1])} :
                /\ NetGreeks.net_delta = Round4(weight * g.delta)
                /\ NetGreeks.net_gamma = Round4(weight * g.gamma)
                /\ NetGreeks.net_theta = Round4(weight * g.theta)
                /\ NetGreeks.net_vega = Round4(weight * g.vega)

\* A leg with the action 'BUY' and no quantity was counted once, negatively.
C25_Witness ==
    /\ StrategySucceeded /\ Len(strategy.answers) = 1
    /\ strategy.legs[1].action = <<"BUY">> /\ strategy.legs[1].quantity = <<>>
    /\ GreeksDataOf(1).greeks # <<>>
    /\ GreeksDataOf(1).greeks[1].vega > 0
    /\ NetGreeks.net_vega = 0 - GreeksDataOf(1).greeks[1].vega


-----------------------------------------------------------------------------
(* Properties of the tool layer.  mcp.call shows one finished call of a    *)
(* tool or resource function: the value of polygon_client it saw, its      *)
(* input, the dict of its client method and its outcome.                   *)

ClientMethodCalls ==
    {"get_stock_price", "get_options_chain", "calculate_option_greeks",
     "stock_price_resource", "options_chain_resource"}

\* C22: get_stock_price, calculate_option_greeks and get_options_chain of the
\* client return, for every answer of the provider, a failing provider and an
\* unparsable expiration date included, a dict whose status is "success" or
\* "error", with an error message exactly when the status is "error".
C22_StatusAndErrorAgree ==
    (mcp.call # <<>> /\ mcp.call[1].tool \in ClientMethodCalls
                    /\ mcp.call[1].client # "None")
    => /\ mcp.call[1].result # <<>>
       /\ mcp.call[1].result[1].status \in {"success", "error"}
       /\ (mcp.call[1].result[1].error # <<>>) <=> (mcp.call[1].result[1].status = "error")

C22_Witness ==
    /\ mcp.call # <<>>
    /\ mcp.call[1].tool = "calculate_option_greeks"
    /\ mcp.call[1].client = "open"
    /\ mcp.call[1].input.q.expiration_date = BadDate
    /\ mcp.call[1].input.p.prev_close = <<150 * ONE>>
    /\ mcp.call[1].result[1].status = "error"
    /\ mcp.call[1].result[1].error # <<>>

GreeksCalled ==
    /\ mcp.call # <<>>
    /\ mcp.call[1].tool = "calculate_option_greeks"
    /\ mcp.call[1].client # "None"

\* The price the request is to use, from the provider's answer p.
SpotOf(p) ==
    IF p.prev_close # <<>> /\ p.prev_close[1] # 0 THEN p.prev_close ELSE p.last_trade

\* C26: calculate_option_greeks takes as spot price the previous close when
\* it is present and not zero, and the last trade's price otherwise; with
\* neither it returns the error 'Could not get current stock price' without
\* calling the engine, and a failed price fetch is returned as it is.
C26_SpotPriceChoice ==
    GreeksCalled =>
       LET p == mcp.call[1].input.p
           r == mcp.call[1].result[1]
           call == mcp.call[1].engine_call
       IN IF p.raises
          THEN r.status = "error" /\ r.error = <<"provider error">> /\ call = <<>>
          ELSE IF SpotOf(p) = <<>>
          THEN /\ r.status = "error"
               /\ r.error = <<"Could not get current stock price">>
               /\ call = <<>>
          ELSE /\ r.error # <<"Could not get current stock price">>
               /\ call # <<>> => call[1].spot_price = SpotOf(p)[1]
               /\ r.status = "success" => r.spot_price = SpotOf(p)

C26_Witness ==
    /\ GreeksCalled
    /\ mcp.call[1].input.p.prev_close = <<0>>
    /\ mcp.call[1].input.p.last_trade = <<90 * ONE>>
    /\ mcp.call[1].engine_call # <<>>
    /\ mcp.call[1].engine_call[1].spot_price = 90 * ONE
    /\ mcp.call[1].result[1].status = "success"

\* C28: a tool or resource function that finds polygon_client None returns
\* 'Error: Polygon client not initialized' and asks the provider nothing;
\* polygon_client changes only in the lifespan, which sets it at startup,
\* not without POLYGON_API_KEY, and closes it at shutdown.
C28_NoClientNoRequest ==
    [][/\ (mcp'.call # <<>> /\ mcp'.call[1].client = "None")
          => /\ mcp'.call[1].out = ToolText("Error: Polygon client not initialized")
             /\ ~mcp'.call[1].provider_asked
             /\ mcp'.call[1].result = <<>>
       /\ (mcp'.call # mcp.call /\ mcp'.call # <<>>)
          => mcp'.call[1].client = mcp.polygon_client
       /\ mcp'.polygon_client # mcp.polygon_client
          => \/ /\ mcp.lifespan = "idle" /\ mcp'.lifespan = "serving"
                /\ mcp.polygon_client = "None" /\ mcp'.polygon_client = "open"
                /\ impl = "server" => mcp'.env[1].POLYGON_API_KEY
             \/ /\ mcp.lifespan = "serving" /\ mcp'.lifespan = "stopped"
                /\ mcp.polygon_client = "open" /\ mcp'.polygon_client = "closed"
       /\ mcp'.lifespan = "failed" => mcp'.polygon_client = "None"
       /\ mcp'.lifespan = "stopped" => mcp'.polygon_client = "closed"]_vars

C28_Witness ==
    /\ impl = "server"
    /\ mcp.lifespan = "failed"
    /\ mcp.polygon_client = "None"
    /\ mcp.call # <<>>
    /\ mcp.call[1].tool = "stock_price_resource"
    /\ mcp.call[1].client = "None"
    /\ mcp.call[1].out = ToolText("Error: Polygon client not initialized")

ToolFunctions ==
    {"get_stock_price", "get_options_chain", "calculate_option_greeks",
     "analyze_options_strategy", "get_unusual_options_activity"}

\* C29: with polygon_client set, each of the five tool functions returns a
\* text for every dict of its client method, a success dict whose price or
\* volume is None included, and raises nothing to the framework.
C29_ToolsAlwaysReturnText ==
    (impl = "server" /\ mcp.call # <<>> /\ mcp.call[1].tool \in ToolFunctions
                     /\ mcp.call[1].client # "None")
    => mcp.call[1].out.kind = "text"

====
